---- MODULE Spec2Model ----
(***************************************************************************)
(* The server-side simulation of the arena shooter: the shared gameState   *)
(* (players, bullets, zone), the per-socket command handlers (join, move,  *)
(* shoot, disconnect) and the 30 Hz game loop.                             *)
(*                                                                         *)
(* Numbers.  JavaScript numbers are IEEE-754 doubles.                      *)
(*  - Coordinates are whole numbers here (every input the model draws is   *)
(*    whole), for which the code's arithmetic is exact.                    *)
(*  - health only ever changes by 20 and by 0.5, both exact in binary; it  *)
(*    is kept in half points (health 100 is written 200).                  *)
(*  - zone.radius changes by 0.1, which is not exact in binary.  It is     *)
(*    kept as the double it is: three limbs <<a, b, c>> standing for       *)
(*    (a * 2^48 + b * 2^24 + c) * 2^-56, and "radius -= 0.1" is the        *)
(*    correctly rounded (round-to-nearest-even) double subtraction.        *)
(*  - angle is written in degrees; only 0 (Math.cos = 1, Math.sin = 0) and *)
(*    180 (Math.PI: cos = -1, sin * 15 = 1.8e-15, which no comparison of   *)
(*    the code can see at whole coordinates) are drawn.                    *)
(***************************************************************************)
EXTENDS Integers, Sequences, FiniteSets, TLC

\* ------------------------------------------------------------- constants
MAP_SIZE == 2000
INITIAL_ZONE_RADIUS == 1200
ZONE_FLOOR == 50
START_HEALTH == 200
BULLET_DAMAGE == 40
ZONE_DAMAGE == 1
BULLET_SPEED == 15
BULLET_MAX_DISTANCE == 600
HIT_RADIUS == 20

\* ------------------------------------------------------- double arithmetic
Limb == 2 ^ 24

Pow2(n) == 2 ^ n

RECURSIVE BitLen(_)
BitLen(n) == IF n = 0 THEN 0 ELSE 1 + BitLen(n \div 2)

\* The double with the whole value n.
DblOfInt(n) == <<n * 256, 0, 0>>

DblGt(r, s) ==
  \/ r[1] > s[1]
  \/ r[1] = s[1] /\ r[2] > s[2]
  \/ r[1] = s[1] /\ r[2] = s[2] /\ r[3] > s[3]

DblGe(r, s) == r = s \/ DblGt(r, s)

\* The number of low bits of the three limbs that a double of this size
\* cannot hold (53 significant bits are kept).
DropBits(r) == BitLen(r[1]) - 5

\* The double 0.1 is 7205759403792794 * 2^-56 = <<25, 10066329, 10066330>>.
TENTH == <<25, 10066329, 10066330>>

\* r - s exactly, limb by limb with borrow (r >= s).
LimbSub(r, s) ==
  LET c0 == r[3] - s[3]
      bc == IF c0 < 0 THEN 1 ELSE 0
      b0 == r[2] - s[2] - bc
      bb == IF b0 < 0 THEN 1 ELSE 0
  IN  <<r[1] - s[1] - bb, b0 + bb * Limb, c0 + bc * Limb>>

\* Round an exact value to the nearest double, ties to even.
RoundNearestEven(e) ==
  LET d == DropBits(e)
      p == Pow2(d)
      rem == e[3] % p
      keep == e[3] - rem
      odd == (e[3] \div p) % 2 = 1
      up == rem * 2 > p \/ (rem * 2 = p /\ odd)
      c2 == IF up THEN keep + p ELSE keep
      cc == IF c2 = Limb THEN 1 ELSE 0
      b2 == e[2] + cc
      cb == IF b2 = Limb THEN 1 ELSE 0
  IN  IF d <= 0 THEN e ELSE <<e[1] + cb, b2 - cb * Limb, c2 - cc * Limb>>

\* radius - 0.1 as the double subtraction computes it.
DblSubTenth(r) == RoundNearestEven(LimbSub(r, TENTH))

\* Math.sqrt(S) > r for a whole S (S = dx ** 2 + dy ** 2 is exact) and a double
\* r.  Math.sqrt is correctly rounded, so the result exceeds r exactly when
\* sqrt(S) lies above the midpoint m of r and the next double; with
\* m = V * 2^-56 that is S * 2^112 > V^2, i.e. 16 * S > V^2 \div 2^108.
\* V^2 is computed in 12-bit limbs.
RECURSIVE ColSum(_, _, _)
ColSum(v, k, i) ==
  IF i > 6 THEN 0
  ELSE (IF k + 2 - i \in 1..6 THEN v[i] * v[k + 2 - i] ELSE 0) + ColSum(v, k, i + 1)

RECURSIVE CarryInto(_, _)
CarryInto(v, k) ==
  IF k = 0 THEN 0 ELSE (ColSum(v, k - 1, 1) + CarryInto(v, k - 1)) \div 4096

SqrtExceeds(S, r) ==
  LET h == Pow2(DropBits(r) - 1)
      v == <<(r[3] + h) % 4096, (r[3] + h) \div 4096,
             r[2] % 4096, r[2] \div 4096,
             r[1] % 4096, r[1] \div 4096>>
      c9 == CarryInto(v, 9)
      c10 == (ColSum(v, 9, 1) + c9) \div 4096
      c11 == (ColSum(v, 10, 1) + c10) \div 4096
      w9 == (ColSum(v, 9, 1) + c9) % 4096
      w10 == (ColSum(v, 10, 1) + c10) % 4096
  IN  16 * S > c11 * 16777216 + w10 * 4096 + w9

\* ------------------------------------------------------------------ state
VARIABLES
  players,   \* gameState.players, as the sequence of Player objects in key order
  bullets,   \* gameState.bullets
  zone,      \* gameState.zone
  closed,    \* the socket ids that have disconnected (an id is never reused)
  nextId,    \* the number of ids nanoid() has handed out
  ticks,     \* the number of game loop runs so far
  emitted    \* the messages the last handler or game loop run sent

vars == <<players, bullets, zone, closed, nextId, ticks, emitted>>

\* The current gameState object.
gameState == [players |-> players, bullets |-> bullets, zone |-> zone]

\* Object.keys(ps): the ids, and the place of an id (0 when it is no key).
Keys(ps) == {ps[i].id : i \in 1..Len(ps)}

IndexOf(ps, id) ==
  IF id \in Keys(ps) THEN CHOOSE i \in 1..Len(ps) : ps[i].id = id ELSE 0

\* ps[id] = p: an existing key keeps its place, a new key goes last.
SetPlayer(ps, id, p) ==
  IF id \in Keys(ps) THEN [ps EXCEPT ![IndexOf(ps, id)] = p] ELSE Append(ps, p)

\* delete ps[id]
DeletePlayer(ps, id) == SelectSeq(ps, LAMBDA p : p.id # id)

\* arr.splice(i, 1), i counted from 1
SpliceNothing(arr, i) == arr

Splice(arr, i) == SubSeq(arr, 1, i - 1) \o SubSeq(arr, i + 1, Len(arr))

Max(a, b) == IF a >= b THEN a ELSE b
Min(a, b) == IF a <= b THEN a ELSE b

Init ==
  /\ players = <<>>
  /\ bullets = <<>>
  /\ zone = [x |-> MAP_SIZE \div 2, y |-> MAP_SIZE \div 2,
             radius |-> DblOfInt(INITIAL_ZONE_RADIUS),
             targetRadius |-> DblOfInt(INITIAL_ZONE_RADIUS)]
  /\ closed = {}
  /\ nextId = 0
  /\ ticks = 0
  /\ emitted = <<>>

\* ------------------------------------------------------- command handlers
\* The team a join computes from the mode and the number of keys.
TeamOfSlotMutant(id, mode, count) ==
  IF mode = "solo" THEN id
  ELSE IF mode = "duo" THEN "team-d-" \o ToString(count \div 4)
  ELSE "team-s-" \o ToString(count \div 4)

TeamOf(id, mode, count) ==
  IF mode = "solo" THEN id
  ELSE IF mode = "duo" THEN "team-d-" \o ToString(count \div 2)
  ELSE "team-s-" \o ToString(count \div 4)

\* The Player object a join stores; (sx, sy) is the random spawn point.
NewPlayer(id, name, mode, sx, sy, count) ==
  [id |-> id, name |-> IF name = "" THEN "Player" ELSE name,
   x |-> sx, y |-> sy, health |-> START_HEALTH,
   teamId |-> TeamOf(id, mode, count),
   kills |-> 0, isDead |-> FALSE, angle |-> 0]

\* socket.on("join")
Join(s, name, mode, sx, sy) ==
  /\ s \notin closed
  /\ LET p == NewPlayer(s, name, mode, sx, sy, Len(players))
         ps == SetPlayer(players, s, p)
     IN  /\ players' = ps
         /\ emitted' = <<[type |-> "init", to |-> s, id |-> s,
                          gameState |-> [gameState EXCEPT !.players = ps],
                          mapSize |-> MAP_SIZE],
                         [type |-> "playerJoined", player |-> p]>>
  /\ UNCHANGED <<bullets, zone, closed, nextId, ticks>>

\* Math.max(0, Math.min(MAP_SIZE, v))
ClampMutant(v) == Max(0, v)

Clamp(v) == Max(0, Min(MAP_SIZE, v))

\* The player after a move (the guard is in Move).
Moved(p, x, y, angle) ==
  [p EXCEPT !.x = Clamp(x), !.y = Clamp(y), !.angle = angle]

\* socket.on("move")
Move(s, x, y, angle) ==
  /\ s \notin closed
  /\ LET i == IndexOf(players, s)
     IN  players' = IF i # 0 /\ ~players[i].isDead
                    THEN [players EXCEPT ![i] = Moved(players[i], x, y, angle)]
                    ELSE players
  /\ emitted' = <<>>
  /\ UNCHANGED <<bullets, zone, closed, nextId, ticks>>

\* The bullet a shoot pushes.
NewBullet(p, id) ==
  [id |-> id, ownerId |-> p.id, teamId |-> p.teamId, x |-> p.x, y |-> p.y,
   angle |-> p.angle, speed |-> BULLET_SPEED, distance |-> 0,
   maxDistance |-> BULLET_MAX_DISTANCE]

\* socket.on("shoot")
ShootWhenDead(s) ==
  /\ s \notin closed
  /\ LET i == IndexOf(players, s)
     IN  IF i # 0
         THEN /\ bullets' = Append(bullets, NewBullet(players[i], nextId + 1))
              /\ nextId' = nextId + 1
         ELSE UNCHANGED <<bullets, nextId>>
  /\ emitted' = <<>>
  /\ UNCHANGED <<players, zone, closed, ticks>>

Shoot(s) ==
  /\ s \notin closed
  /\ LET i == IndexOf(players, s)
     IN  IF i # 0 /\ ~players[i].isDead
         THEN /\ bullets' = Append(bullets, NewBullet(players[i], nextId + 1))
              /\ nextId' = nextId + 1
         ELSE UNCHANGED <<bullets, nextId>>
  /\ emitted' = <<>>
  /\ UNCHANGED <<players, zone, closed, ticks>>

\* socket.on("disconnect")
DisconnectWithBullets(s) ==
  /\ s \notin closed
  /\ closed' = closed \cup {s}
  /\ players' = DeletePlayer(players, s)
  /\ bullets' = SelectSeq(bullets, LAMBDA b : b.ownerId # s)
  /\ emitted' = <<[type |-> "playerLeft", id |-> s]>>
  /\ UNCHANGED <<zone, nextId, ticks>>

Disconnect(s) ==
  /\ s \notin closed
  /\ closed' = closed \cup {s}
  /\ players' = DeletePlayer(players, s)
  /\ emitted' = <<[type |-> "playerLeft", id |-> s]>>
  /\ UNCHANGED <<bullets, zone, nextId, ticks>>

\* ----------------------------------------------------------- game loop
\* Math.cos(angle) and Math.sin(angle) for the angles drawn (in degrees).
Cos(angle) == CASE angle = 0 -> 1 [] angle = 180 -> -1 [] OTHER -> 0
Sin(angle) == CASE angle = 90 -> 1 [] angle = 270 -> -1 [] OTHER -> 0

\* A bullet after b.x += ..., b.y += ..., b.distance += b.speed.
Advance(b) ==
  [b EXCEPT !.x = @ + Cos(b.angle) * b.speed,
            !.y = @ + Sin(b.angle) * b.speed,
            !.distance = @ + b.speed]

\* b.distance > b.maxDistance, on the advanced bullet.
OutOfRangeLate(b) == b.distance > b.maxDistance + b.speed

OutOfRange(b) == b.distance > b.maxDistance

\* The guard of the collision scan and its distance test:
\* Math.sqrt(dx ** 2 + dy ** 2) < 20, which for whole dx, dy is dx^2 + dy^2 < 400.
Near(p, b) ==
  (p.x - b.x) * (p.x - b.x) + (p.y - b.y) * (p.y - b.y) < HIT_RADIUS * HIT_RADIUS

QualifiesAnyTeam(p, b) ==
  /\ p.id # b.ownerId
  /\ ~p.isDead
  /\ Near(p, b)

Qualifies(p, b) ==
  /\ p.id # b.ownerId
  /\ p.teamId # b.teamId
  /\ ~p.isDead
  /\ Near(p, b)

\* The place of the first player, in key order, that the bullet hits; 0 if none.
FirstHit(ps, b) ==
  LET hits == {j \in 1..Len(ps) : Qualifies(ps[j], b)}
  IN  IF hits = {} THEN 0 ELSE CHOOSE j \in hits : \A k \in hits : j <= k

\* The players after bullet b has hit the player at place j, and what is emitted.
ApplyHitBelowZero(ps, b, j) ==
  LET h == ps[j].health - BULLET_DAMAGE
      dies == h < 0
      hurt == [ps EXCEPT ![j] = [@ EXCEPT !.health = h,
                                          !.isDead = IF dies THEN TRUE ELSE @]]
      k == IndexOf(ps, b.ownerId)
  IN  [players |-> IF dies /\ k # 0
                   THEN [hurt EXCEPT ![k] = [@ EXCEPT !.kills = @ + 1]]
                   ELSE hurt,
       emitted |-> IF dies
                   THEN <<[type |-> "playerKilled", victim |-> ps[j].id,
                           killer |-> b.ownerId]>>
                   ELSE <<>>]

\* (as ApplyHit, but a kill whose owner is gone is credited to the victim)
ApplyHitCreditsVictim(ps, b, j) ==
  LET h == ps[j].health - BULLET_DAMAGE
      dies == h <= 0
      hurt == [ps EXCEPT ![j] = [@ EXCEPT !.health = h,
                                          !.isDead = IF dies THEN TRUE ELSE @]]
      k == IndexOf(ps, b.ownerId)
  IN  [players |-> IF dies
                   THEN [hurt EXCEPT ![IF k # 0 THEN k ELSE j] = [@ EXCEPT !.kills = @ + 1]]
                   ELSE hurt,
       emitted |-> IF dies
                   THEN <<[type |-> "playerKilled", victim |-> ps[j].id,
                           killer |-> b.ownerId]>>
                   ELSE <<>>]

\* (as ApplyHit, but every hit is credited to the owner)
ApplyHitCreditsEveryHit(ps, b, j) ==
  LET h == ps[j].health - BULLET_DAMAGE
      dies == h <= 0
      hurt == [ps EXCEPT ![j] = [@ EXCEPT !.health = h,
                                          !.isDead = IF dies THEN TRUE ELSE @]]
      k == IndexOf(ps, b.ownerId)
  IN  [players |-> IF k # 0
                   THEN [hurt EXCEPT ![k] = [@ EXCEPT !.kills = @ + 1]]
                   ELSE hurt,
       emitted |-> IF dies
                   THEN <<[type |-> "playerKilled", victim |-> ps[j].id,
                           killer |-> b.ownerId]>>
                   ELSE <<>>]

ApplyHit(ps, b, j) ==
  LET h == ps[j].health - BULLET_DAMAGE
      dies == h <= 0
      hurt == [ps EXCEPT ![j] = [@ EXCEPT !.health = h,
                                          !.isDead = IF dies THEN TRUE ELSE @]]
      k == IndexOf(ps, b.ownerId)
  IN  [players |-> IF dies /\ k # 0
                   THEN [hurt EXCEPT ![k] = [@ EXCEPT !.kills = @ + 1]]
                   ELSE hurt,
       emitted |-> IF dies
                   THEN <<[type |-> "playerKilled", victim |-> ps[j].id,
                           killer |-> b.ownerId]>>
                   ELSE <<>>]

\* The bullet loop from index i down to 1 (i counted from 1).
\* (BulletLoopHitFirst: the collision scan comes before the range check.)
RECURSIVE BulletLoopHitFirst(_, _, _, _)
BulletLoopHitFirst(i, ps, bs, em) ==
  IF i = 0 THEN [players |-> ps, bullets |-> bs, emitted |-> em]
  ELSE LET b == Advance(bs[i])
           moved == [bs EXCEPT ![i] = b]
           j == FirstHit(ps, b)
           hit == ApplyHit(ps, b, j)
       IN  IF j # 0
           THEN BulletLoopHitFirst(i - 1, hit.players, Splice(moved, i), em \o hit.emitted)
           ELSE IF OutOfRange(b) THEN BulletLoopHitFirst(i - 1, ps, Splice(moved, i), em)
           ELSE BulletLoopHitFirst(i - 1, ps, moved, em)

\* (BulletLoopSkips: the loop runs from the first bullet up, and the bullet
\* that moves into the place of a spliced one is passed over.)
RECURSIVE ForwardLoop(_, _, _, _)
ForwardLoop(k, ps, bs, em) ==
  IF k > Len(bs) THEN [players |-> ps, bullets |-> bs, emitted |-> em]
  ELSE LET b == Advance(bs[k])
           moved == [bs EXCEPT ![k] = b]
           j == FirstHit(ps, b)
           hit == ApplyHit(ps, b, j)
       IN  IF OutOfRange(b) THEN ForwardLoop(k + 1, ps, Splice(moved, k), em)
           ELSE IF j = 0 THEN ForwardLoop(k + 1, ps, moved, em)
           ELSE ForwardLoop(k + 1, hit.players, Splice(moved, k), em \o hit.emitted)

BulletLoopSkips(i, ps, bs, em) == ForwardLoop(1, ps, bs, em)

RECURSIVE BulletLoop(_, _, _, _)
BulletLoop(i, ps, bs, em) ==
  IF i = 0 THEN [players |-> ps, bullets |-> bs, emitted |-> em]
  ELSE LET b == Advance(bs[i])
           moved == [bs EXCEPT ![i] = b]
           j == FirstHit(ps, b)
           hit == ApplyHit(ps, b, j)
       IN  IF OutOfRange(b) THEN BulletLoop(i - 1, ps, Splice(moved, i), em)
           ELSE IF j = 0 THEN BulletLoop(i - 1, ps, moved, em)
           ELSE BulletLoop(i - 1, hit.players, Splice(moved, i), em \o hit.emitted)

\* Update Zone
Shrink(zn) ==
  IF DblGt(zn.radius, DblOfInt(ZONE_FLOOR))
  THEN [zn EXCEPT !.radius = DblSubTenth(@)]
  ELSE zn

\* distToCenter > gameState.zone.radius
OutsideZone(p, zn) ==
  SqrtExceeds((p.x - zn.x) * (p.x - zn.x) + (p.y - zn.y) * (p.y - zn.y), zn.radius)

\* Zone Damage, from the player at place j on.
\* (ZoneLoopHitsDead: without the test of isDead.)
RECURSIVE ZoneLoopHitsDead(_, _, _, _)
ZoneLoopHitsDead(j, ps, zn, em) ==
  IF j > Len(ps) THEN [players |-> ps, emitted |-> em]
  ELSE LET p == ps[j]
           h == p.health - ZONE_DAMAGE
       IN  IF OutsideZone(p, zn)
           THEN IF h <= 0
                THEN ZoneLoopHitsDead(j + 1,
                       [ps EXCEPT ![j] = [@ EXCEPT !.health = h, !.isDead = TRUE]],
                       zn,
                       Append(em, [type |-> "playerKilled", victim |-> p.id,
                                   killer |-> "ZONE"]))
                ELSE ZoneLoopHitsDead(j + 1, [ps EXCEPT ![j] = [@ EXCEPT !.health = h]], zn, em)
           ELSE ZoneLoopHitsDead(j + 1, ps, zn, em)

RECURSIVE ZoneLoop(_, _, _, _)
ZoneLoop(j, ps, zn, em) ==
  IF j > Len(ps) THEN [players |-> ps, emitted |-> em]
  ELSE LET p == ps[j]
           h == p.health - ZONE_DAMAGE
       IN  IF ~p.isDead /\ OutsideZone(p, zn)
           THEN IF h <= 0
                THEN ZoneLoop(j + 1,
                       [ps EXCEPT ![j] = [@ EXCEPT !.health = h, !.isDead = TRUE]],
                       zn,
                       Append(em, [type |-> "playerKilled", victim |-> p.id,
                                   killer |-> "ZONE"]))
                ELSE ZoneLoop(j + 1, [ps EXCEPT ![j] = [@ EXCEPT !.health = h]], zn, em)
           ELSE ZoneLoop(j + 1, ps, zn, em)

\* One run of the setInterval callback on a gameState.
\* (GameLoopDamageFirst: the zone damage is dealt before the zone shrinks.)
GameLoopDamageFirst(gs) ==
  LET shot == BulletLoop(Len(gs.bullets), gs.players, gs.bullets, <<>>)
      zoned == ZoneLoop(1, shot.players, gs.zone, shot.emitted)
      zn == Shrink(gs.zone)
      after == [players |-> zoned.players, bullets |-> shot.bullets, zone |-> zn]
  IN  [gameState |-> after,
       emitted |-> Append(zoned.emitted,
                          [type |-> "gameStateUpdate", gameState |-> after])]

\* (GameLoopPublishEarly: the snapshot is taken before the zone steps.)
GameLoopPublishEarly(gs) ==
  LET shot == BulletLoop(Len(gs.bullets), gs.players, gs.bullets, <<>>)
      zn == Shrink(gs.zone)
      zoned == ZoneLoop(1, shot.players, zn, shot.emitted)
      early == [players |-> shot.players, bullets |-> shot.bullets, zone |-> gs.zone]
      after == [players |-> zoned.players, bullets |-> shot.bullets, zone |-> zn]
  IN  [gameState |-> after,
       emitted |-> Append(zoned.emitted,
                          [type |-> "gameStateUpdate", gameState |-> early])]

GameLoop(gs) ==
  LET shot == BulletLoop(Len(gs.bullets), gs.players, gs.bullets, <<>>)
      zn == Shrink(gs.zone)
      zoned == ZoneLoop(1, shot.players, zn, shot.emitted)
      after == [players |-> zoned.players, bullets |-> shot.bullets, zone |-> zn]
  IN  [gameState |-> after,
       emitted |-> Append(zoned.emitted,
                          [type |-> "gameStateUpdate", gameState |-> after])]

Tick ==
  LET run == GameLoop(gameState)
  IN  /\ players' = run.gameState.players
      /\ bullets' = run.gameState.bullets
      /\ zone' = run.gameState.zone
      /\ emitted' = run.emitted
      /\ ticks' = ticks + 1
      /\ UNCHANGED <<closed, nextId>>

\* ------------------------------------------------------- specifications
\* The commands of the sockets in S with their inputs drawn from the given sets.
Joins(S, names, modes, spawns) ==
  \E s \in S, n \in names, m \in modes, sp \in spawns : Join(s, n, m, sp[1], sp[2])

\* A socket's first join only: the client sends join once, when it connects.
FirstJoins(S, names, modes, spawns) ==
  \E s \in S \ Keys(players), n \in names, m \in modes, sp \in spawns :
    Join(s, n, m, sp[1], sp[2])

Moves(S, xs, ys, angles) ==
  \E s \in S, x \in xs, y \in ys, a \in angles : Move(s, x, y, a)

\* At most maxShots bullets are ever fired.
Shoots(S, maxShots) == \E s \in S : nextId < maxShots /\ Shoot(s)

Leaves(S) == \E s \in S : Disconnect(s)

\* The game loop runs at most maxTicks times.
Ticks(maxTicks) == ticks < maxTicks /\ Tick

\* The interval timer fires for one of those runs: what Ticks(maxTicks) does
\* to the count of runs (the steps of Ticks are the only steps that raise it).
TimerFires(maxTicks) == ticks < maxTicks /\ ticks' = ticks + 1

\* Spawn points (Math.random() * MAP_SIZE twice): the centre of the zone, and a
\* point near a corner of the arena, 1272 from the centre and so outside the
\* zone from the start.
Centre == <<1000, 1000>>
Corner == <<100, 100>>

\* A spawn point exactly 1200 from the centre (720^2 + 960^2 = 1200^2), on the
\* rim of the zone as it is before the loop first runs.
Rim == <<280, 40>>

\* Spec: a skirmish of two solo players around the centre of the arena, one
\* step of a bullet apart.
MaxTicks == 2
MaxShots == 2

Next ==
  \/ Joins({"s1", "s2"}, {"Ann"}, {"solo"}, {Centre})
  \/ Moves({"s1", "s2"}, {1015}, {1000}, {0, 180})
  \/ Shoots({"s1", "s2"}, MaxShots)
  \/ Leaves({"s1", "s2"})
  \/ Ticks(MaxTicks)

Spec == Init /\ [][Next]_vars

\* SpecFire: two players who join in any mode at the same point and fire.
MaxFireTicks == 1
MaxFireShots == 1

NextFire ==
  \/ Joins({"s1", "s2"}, {"Ann"}, {"solo", "duo", "squad"}, {Centre})
  \/ Moves({"s2"}, {1015}, {1000}, {0})
  \/ Shoots({"s1", "s2"}, MaxFireShots)
  \/ Leaves({"s1", "s2"})
  \/ Ticks(MaxFireTicks)

SpecFire == Init /\ [][NextFire]_vars

\* SpecKill: s1 fires at s2 until it dies.  A join spawns either at the centre,
\* inside the zone, or at the corner, outside it, where the zone takes its 0.5
\* in every run of the loop.
MaxKillTicks == 1
MaxKillShots == 5

NextKill ==
  \/ Joins({"s1", "s2"}, {"Ann"}, {"solo"}, {Centre, Corner})
  \/ Moves({"s2"}, {115}, {100}, {0})
  \/ Shoots({"s1"}, MaxKillShots)
  \/ Leaves({"s1", "s2"})
  \/ Ticks(MaxKillTicks)

SpecKill == Init /\ [][NextKill]_vars

\* SpecRange: one player fires and the bullets fly until they are out of range.
MaxRangeTicks == 42
MaxRangeShots == 1

NextRange ==
  \/ Joins({"s1"}, {"Ann"}, {"solo"}, {Centre})
  \/ Moves({"s1"}, {1000}, {1000}, {180})
  \/ Shoots({"s1"}, MaxRangeShots)
  \/ Leaves({"s1"})
  \/ Ticks(MaxRangeTicks)

SpecRange == Init /\ [][NextRange]_vars

\* SpecZone: the zone shrinks to its floor while one player stands at its centre.
MaxZoneTicks == 11510

NextZone ==
  \/ Joins({"s1"}, {"Ann"}, {"solo"}, {Centre})
  \/ Moves({"s1"}, {1000}, {1000}, {0, 180})
  \/ Leaves({"s1"})
  \/ Ticks(MaxZoneTicks)

SpecZone == Init /\ [][NextZone]_vars

\* SpecTeams: five sockets join, each once, and leave.
TeamSessions == {"s1", "s2", "s3", "s4", "s5"}

NextTeams ==
  \/ FirstJoins(TeamSessions, {"Ann"}, {"solo", "duo", "squad"}, {Centre})
  \/ Leaves(TeamSessions)

SpecTeams == Init /\ [][NextTeams]_vars

\* SpecMove: one player moves anywhere, inside and outside the arena.
MaxMoveTicks == 1
MoveCoords == {-500, 700, 2500}
MoveAngles == {0, 270}

NextMove ==
  \/ Joins({"s1"}, {"", "Ann"}, {"solo"}, {Centre, <<0, 1999>>})
  \/ Moves({"s1"}, MoveCoords, MoveCoords, MoveAngles)
  \/ Shoots({"s1"}, 1)
  \/ Leaves({"s1"})
  \/ Ticks(MaxMoveTicks)

SpecMove == Init /\ [][NextMove]_vars

\* SpecShoot: two players, each joining once at the corner, fire at each other
\* from one step of a bullet apart, also after one of them has died.
MaxShootTicks == 1
MaxShootShots == 6

NextShoot ==
  \/ FirstJoins({"s1", "s2"}, {"Ann"}, {"solo"}, {Corner})
  \/ Moves({"s2"}, {115}, {100}, {180})
  \/ Shoots({"s1", "s2"}, MaxShootShots)
  \/ Leaves({"s1", "s2"})
  \/ Ticks(MaxShootTicks)

SpecShoot == Init /\ [][NextShoot]_vars

\* SpecDuel: two players, each joining once, stand at the corner, outside the
\* zone, and fire at each other over several runs of the loop.
MaxDuelTicks == 2
MaxDuelShots == 6

NextDuel ==
  \/ FirstJoins({"s1", "s2"}, {"Ann"}, {"solo"}, {Corner})
  \/ Shoots({"s1", "s2"}, MaxDuelShots)
  \/ Leaves({"s1", "s2"})
  \/ Ticks(MaxDuelTicks)

SpecDuel == Init /\ [][NextDuel]_vars

\* SpecSiege: two players join at the corner, outside the zone, before the
\* loop first runs, fire at each other up to its second run, and then stay
\* where they are until the zone has killed them.
MaxSiegeTicks == 201
MaxSiegeShots == 6

NextSiege ==
  \/ ticks = 0 /\ FirstJoins({"s1", "s2"}, {"Ann"}, {"solo"}, {Corner})
  \/ ticks <= 1 /\ Shoots({"s1", "s2"}, MaxSiegeShots)
  \/ Leaves({"s1", "s2"})
  \/ Ticks(MaxSiegeTicks)

SpecSiege == Init /\ [][NextSiege]_vars

\* SpecStorm: two players join before the loop first runs, at the centre, at
\* the corner or on the rim of the zone, and stay there; nobody fires.  The
\* loop runs every 1000/30 ms, so it is not held up forever.
MaxStormTicks == 201

NextStorm ==
  \/ ticks = 0 /\ FirstJoins({"s1", "s2"}, {"Ann"}, {"solo"}, {Centre, Corner, Rim})
  \/ Leaves({"s1", "s2"})
  \/ Ticks(MaxStormTicks)

SpecStorm == Init /\ [][NextStorm]_vars /\ WF_ticks(TimerFires(MaxStormTicks))

\* SpecFlight: s1 fires from the centre along the x axis, up to the second run
\* of the loop; s2 stands in the line of fire, 300 away or 630 away (within 20
\* of where a bullet is when it has flown 615).  The loop runs every 1000/30
\* ms, so it is not held up forever.
MaxFlightTicks == 42
MaxFlightShots == 2
Target == <<1300, 1000>>
BeyondRange == <<1630, 1000>>

NextFlight ==
  \/ FirstJoins({"s1"}, {"Ann"}, {"solo"}, {Centre})
  \/ FirstJoins({"s2"}, {"Ann"}, {"solo"}, {Target, BeyondRange})
  \/ ticks <= 1 /\ Shoots({"s1"}, MaxFlightShots)
  \/ Leaves({"s1", "s2"})
  \/ Ticks(MaxFlightTicks)

SpecFlight == Init /\ [][NextFlight]_vars /\ WF_ticks(TimerFires(MaxFlightTicks))

\* ------------------------------------------------------------- properties
\* What the formulas below read off a step.
Player(ps, id) == ps[IndexOf(ps, id)]

BulletIds(bs) == {bs[i].id : i \in 1..Len(bs)}

\* The step is a run of the game loop.
IsTick == ticks' = ticks + 1

\* The step is a join of socket s.
IsJoinOf(s) ==
  /\ emitted' # <<>>
  /\ emitted'[1].type = "init"
  /\ emitted'[1].to = s

\* Health the player with this id loses in the step (it is in the store
\* before and after).
Lost(id) == Player(players, id).health - Player(players', id).health

RECURSIVE SumOver(_, _)
SumOver(S, f) ==
  IF S = {} THEN 0
  ELSE LET e == CHOOSE x \in S : TRUE IN f[e] + SumOver(S \ {e}, f)

\* The bullets of the store that a tick takes out although they are in range.
HitBullets ==
  {i \in 1..Len(bullets) :
     /\ bullets[i].id \notin BulletIds(bullets')
     /\ bullets[i].distance + bullets[i].speed <= bullets[i].maxDistance}

\* C1: in every reachable state every player in the store is dead exactly
\* when its health is at most 0.
DeadIffNoHealth ==
  \A i \in 1..Len(players) : players[i].isDead <=> players[i].health <= 0

\* A player has been killed.
SomePlayerDead == \E i \in 1..Len(players) : players[i].isDead

\* C2: a dead player that is still in the store after a step has the x, y,
\* health and angle it had before the step.
DeadPlayerFrozen ==
  [][\A i \in 1..Len(players) :
       (players[i].isDead /\ players[i].id \in Keys(players'))
       => LET q == Player(players', players[i].id)
          IN  /\ q.x = players[i].x
              /\ q.y = players[i].y
              /\ q.health = players[i].health
              /\ q.angle = players[i].angle]_vars

NoFriendlyFire ==
  [][IsTick =>
       \A id \in Keys(players) :
         LET p == Player(players, id)
             foes == {i \in 1..Len(bullets) :
                        bullets[i].teamId # p.teamId /\ bullets[i].ownerId # id}
         IN  Lost(id) <= BULLET_DAMAGE * Cardinality(foes) + ZONE_DAMAGE]_vars

\* The game loop has just moved a bullet to within 20 of a living team mate of
\* its owner, who is unhurt.
BulletPassedTeamMate ==
  /\ emitted # <<>>
  /\ emitted[Len(emitted)].type = "gameStateUpdate"
  /\ \E i \in 1..Len(bullets), j \in 1..Len(players) :
       /\ players[j].id # bullets[i].ownerId
       /\ players[j].teamId = bullets[i].teamId
       /\ players[j].teamId # players[j].id
       /\ Near(players[j], bullets[i])
       /\ ~players[j].isDead
       /\ players[j].health = START_HEALTH

\* C5: every bullet in the store, and in every published snapshot, has
\* travelled at most its maxDistance, which is 600 (so a bullet that an
\* advance carries beyond 600 is never seen: that run takes it out).
BulletWithinRange ==
  /\ \A i \in 1..Len(bullets) :
       /\ bullets[i].maxDistance = BULLET_MAX_DISTANCE
       /\ bullets[i].distance <= bullets[i].maxDistance
  /\ \A k \in 1..Len(emitted) :
       emitted[k].type = "gameStateUpdate" =>
         \A i \in 1..Len(emitted[k].gameState.bullets) :
           emitted[k].gameState.bullets[i].distance <= BULLET_MAX_DISTANCE

\* A bullet has flown the whole 600.
BulletAtFullRange == \E i \in 1..Len(bullets) : bullets[i].distance = BULLET_MAX_DISTANCE

\* C6: the zone radius is at least 50 in every reachable state, never grows
\* from one state to the next, and changes in no step but a run of the game
\* loop.
ZoneRadiusAtLeastFloor == DblGe(zone.radius, DblOfInt(ZONE_FLOOR))

ZoneOnlyShrinks ==
  [][/\ DblGe(zone.radius, zone'.radius)
     /\ ~IsTick => zone' = zone]_vars

ZoneShrinksToFloor == []ZoneRadiusAtLeastFloor /\ ZoneOnlyShrinks

\* C7: a join of a socket that has a player in the store leaves that player
\* as it was.
RejoinChangesNothing ==
  [][\A i \in 1..Len(players) :
       IsJoinOf(players[i].id) => Player(players', players[i].id) = players[i]]_vars

\* The team ids of the two party modes.
DuoTeams == {"team-d-" \o ToString(k) : k \in 0..Cardinality(TeamSessions)}
SquadTeams == {"team-s-" \o ToString(k) : k \in 0..Cardinality(TeamSessions)}

Members(t) == {i \in 1..Len(players) : players[i].teamId = t}

\* C8: at most 2 players in the store share a duo team id and at most 4 a
\* squad team id, and a solo player's team id is its own id.
TeamSizesBounded ==
  /\ \A t \in DuoTeams : Cardinality(Members(t)) <= 2
  /\ \A t \in SquadTeams : Cardinality(Members(t)) <= 4
  /\ \A i \in 1..Len(players) :
       players[i].teamId \notin DuoTeams \cup SquadTeams
         => players[i].teamId = players[i].id

\* Nobody has left and the first four in the store all joined in duo mode.
FourDuoJoins ==
  /\ closed = {}
  /\ Len(players) >= 4
  /\ \A i \in 1..4 : players[i].teamId \in DuoTeams

\* C9: when the first four joins into the empty store are duo joins with no
\* leave in between, the 1st and 2nd share a team, the 3rd and 4th share a
\* team, and the two teams differ.
DuoPairsInJoinOrder ==
  FourDuoJoins =>
    /\ players[1].teamId = players[2].teamId
    /\ players[3].teamId = players[4].teamId
    /\ players[1].teamId # players[3].teamId

\* C10: a move of a living player puts it at (min(2000, max(0, x)),
\* min(2000, max(0, y))) with the angle given, and after every step every
\* player is inside [0, 2000] x [0, 2000].
MoveClamps ==
  [][/\ \A i \in 1..Len(players') :
          /\ players'[i].x >= 0 /\ players'[i].x <= MAP_SIZE
          /\ players'[i].y >= 0 /\ players'[i].y <= MAP_SIZE
     /\ \A i \in 1..Len(players), x \in MoveCoords, y \in MoveCoords, a \in MoveAngles :
          (~players[i].isDead /\ Move(players[i].id, x, y, a))
          => /\ players'[i].x = Min(MAP_SIZE, Max(0, x))
             /\ players'[i].y = Min(MAP_SIZE, Max(0, y))
             /\ players'[i].angle = a]_vars

\* A move has been clamped on both sides: the player stands in a corner it
\* cannot have spawned in.
PlayerClampedToCorner ==
  \E i \in 1..Len(players) :
    players[i].x = MAP_SIZE /\ players[i].y = 0 /\ players[i].angle = 270

\* C11: a shoot of a socket whose player is alive appends one bullet with the
\* socket as ownerId, the player's teamId, x, y and angle, speed 15, distance 0
\* and maxDistance 600, and leaves the players, the other bullets and the zone
\* as they were; a shoot of a socket with no player or a dead player leaves
\* players, bullets and zone as they were.
ShootAddsOneBullet ==
  [][\A s \in {"s1", "s2"} :
       Shoot(s) =>
         LET i == IndexOf(players, s)
             n == Len(bullets)
         IN  /\ players' = players
             /\ zone' = zone
             /\ IF i # 0 /\ ~players[i].isDead
                THEN /\ Len(bullets') = n + 1
                     /\ SubSeq(bullets', 1, n) = bullets
                     /\ bullets'[n + 1].id \notin BulletIds(bullets)
                     /\ bullets'[n + 1].ownerId = s
                     /\ bullets'[n + 1].teamId = players[i].teamId
                     /\ bullets'[n + 1].x = players[i].x
                     /\ bullets'[n + 1].y = players[i].y
                     /\ bullets'[n + 1].angle = players[i].angle
                     /\ bullets'[n + 1].speed = 15
                     /\ bullets'[n + 1].distance = 0
                     /\ bullets'[n + 1].maxDistance = 600
                ELSE bullets' = bullets]_vars

\* A player that moved and turned has fired and killed the other one, and a
\* command that emits nothing (a shoot of the dead player is one) has been
\* handled since, with bullet ids still to hand out.
ShotAfterDeath ==
  /\ emitted = <<>>
  /\ nextId < MaxShootShots
  /\ \E i, j \in 1..Len(players) :
       /\ players[i].isDead
       /\ players[j].x = 115 /\ players[j].angle = 180 /\ players[j].kills = 1

\* C12: a disconnect of a socket takes that socket's player, if it has one,
\* out of the store and leaves the other players, all bullets and the zone as
\* they were; a step that is not a disconnect takes no player out.
LeaveRemovesOnlyLeaver ==
  [][/\ \A s \in {"s1", "s2"} :
          (s \notin closed /\ s \in closed')
          => /\ players' = SelectSeq(players, LAMBDA p : p.id # s)
             /\ bullets' = bullets
             /\ zone' = zone
     /\ closed' = closed => Keys(players) \subseteq Keys(players')]_vars

\* A player has just left: its bullet is still in the store, next to the
\* other player, who is dead.
LeaverBulletRemains ==
  /\ emitted # <<>>
  /\ emitted[1].type = "playerLeft"
  /\ \E k \in 1..Len(bullets) : bullets[k].ownerId \in closed
  /\ \E i \in 1..Len(players) : players[i].isDead

\* The playerKilled messages a step emits.
Killings == {k \in 1..Len(emitted') : emitted'[k].type = "playerKilled"}

\* C13: in a run of the game loop in which the owner of every bullet has left
\* the store, the loop runs to its end (it publishes the store), every player
\* takes 20 for each bullet that goes out of the store in range, a player
\* whose health comes to 0 or less is dead, and no kill count changes.
OrphanBulletKillsUncredited ==
  [][(IsTick /\ \A k \in 1..Len(bullets) : bullets[k].ownerId \notin Keys(players))
       => /\ emitted'[Len(emitted')].type = "gameStateUpdate"
          /\ emitted'[Len(emitted')].gameState = gameState'
          /\ Keys(players') = Keys(players)
          /\ SumOver(Keys(players), [id \in Keys(players) |-> Lost(id) \div BULLET_DAMAGE])
               = Cardinality(HitBullets)
          /\ \A id \in Keys(players) :
               /\ Player(players', id).kills = Player(players, id).kills
               /\ Player(players', id).health <= 0 => Player(players', id).isDead
               /\ (\E k \in Killings : emitted'[k].victim = id)
                    <=> (~Player(players, id).isDead /\ Player(players', id).isDead)]_vars

\* The game loop has just let the bullets of a player that left kill the one
\* in the store.
KilledByOrphanBullet ==
  \E k \in 1..Len(emitted), i \in 1..Len(players) :
    /\ emitted[k].type = "playerKilled"
    /\ emitted[k].killer \in closed
    /\ emitted[k].victim = players[i].id
    /\ players[i].isDead /\ players[i].health <= 0 /\ players[i].kills = 0

\* The player with this id is alive before the step and dead after it.
Dies(id) == ~Player(players, id).isDead /\ Player(players', id).isDead

\* The in-range bullets a tick takes out that are not this player's own.
HitsOn(id) == {i \in HitBullets : bullets[i].ownerId # id}

\* C14: in a run of the game loop a player's kill count goes up by one for
\* each other player that a bullet takes from alive to dead (a death that the
\* zone completes counts for nobody), where an enemy at health 100 dies of
\* exactly the fifth hit; in every other step no kill count goes up.
KillsCountBulletKills ==
  [][/\ ~IsTick =>
          \A id \in Keys(players) \cap Keys(players') :
            Player(players', id).kills <= Player(players, id).kills
     /\ IsTick =>
          \A id \in Keys(players) :
            /\ Player(players', id).kills - Player(players, id).kills
                 = Cardinality({v \in Keys(players) \ {id} :
                                  Dies(v) /\ Lost(v) % BULLET_DAMAGE = 0})
            /\ Player(players, id).health = START_HEALTH
                 => /\ Dies(id) <=> Cardinality(HitsOn(id)) = 5
                    /\ Cardinality(HitsOn(id)) <= 5
                    /\ Lost(id) \div BULLET_DAMAGE = Cardinality(HitsOn(id))]_vars

\* A player that killed the other with its bullets has itself been killed by
\* the zone in this run of the loop, and still has its one kill.
KillerKilledByZone ==
  \E k \in 1..Len(emitted), i, j \in 1..Len(players) :
    /\ emitted[k].type = "playerKilled"
    /\ emitted[k].killer = "ZONE"
    /\ emitted[k].victim = players[i].id
    /\ players[i].kills = 1
    /\ i # j /\ players[j].isDead /\ players[j].kills = 0

\* C15: every player's kill count is a natural number, and from one state to
\* the next the kill count of a socket's player that stays in the store does
\* not go down.
KillsNeverDecrease ==
  [][/\ \A i \in 1..Len(players) : players[i].kills \in Nat
     /\ \A id \in Keys(players) \cap Keys(players') :
          Player(players', id).kills >= Player(players, id).kills]_vars

\* C16: in every reachable state every player's health is at least 0 and at
\* most 100.
HealthWithinBounds ==
  \A i \in 1..Len(players) :
    players[i].health >= 0 /\ players[i].health <= START_HEALTH

\* The number of runs of the loop that take 0.1 each from 1200 down to 50.
TicksToFloor == (INITIAL_ZONE_RADIUS - ZONE_FLOOR) * 10

\* C17: the zone radius is above 50 before the 11,500th run of the game loop
\* and exactly 50 after it and after every later run.
ZoneAtFloorAfter11500 ==
  /\ ticks < TicksToFloor => DblGt(zone.radius, DblOfInt(ZONE_FLOOR))
  /\ ticks >= TicksToFloor => zone.radius = DblOfInt(ZONE_FLOOR)

\* 100 times the square of the distance from the player with this id to the
\* centre (1000, 1000), and the whole tenths in the radius after the step (the
\* radius lies between that many tenths and two tenths more).
Dist2x100(id) ==
  LET p == Player(players, id)
  IN  100 * ((p.x - 1000) * (p.x - 1000) + (p.y - 1000) * (p.y - 1000))

ShrunkTenths == (10 * zone'.radius[1]) \div 256

\* C18: in a run of the game loop with no bullets, a living player farther
\* from (1000, 1000) than the radius as shrunk in that run loses exactly 0.5,
\* a living player within it and a dead player lose nothing, a player that
\* dies is named in a playerKilled message with killer "ZONE" and no kill
\* count changes; a player that joined outside the zone before the first run
\* has lost 0.5 per run and is dead from the 200th run on; and a living player
\* outside the zone is eventually dead (or gone from the store).
ZoneDamageOutside ==
  /\ [][(IsTick /\ bullets = <<>>) =>
          \A id \in Keys(players) :
            LET p == Player(players, id)
            IN  /\ Lost(id) \in {0, ZONE_DAMAGE}
                /\ p.isDead => Lost(id) = 0
                /\ (~p.isDead /\ Dist2x100(id) >= (ShrunkTenths + 2) * (ShrunkTenths + 2))
                     => Lost(id) = ZONE_DAMAGE
                /\ Dist2x100(id) <= ShrunkTenths * ShrunkTenths => Lost(id) = 0
                /\ Dies(id) <=> \E k \in Killings : emitted'[k].victim = id
                /\ \A k \in Killings : emitted'[k].killer = "ZONE"
                /\ Player(players', id).kills = p.kills]_vars
  /\ [](\A i \in 1..Len(players) :
          IF <<players[i].x, players[i].y>> = Centre
          THEN players[i].health = START_HEALTH /\ ~players[i].isDead
          ELSE /\ players[i].health = Max(0, START_HEALTH - ticks * ZONE_DAMAGE)
               /\ players[i].isDead <=> ticks >= 200)
  /\ \A s \in {"s1", "s2"} :
       (s \in Keys(players) /\ <<Player(players, s).x, Player(players, s).y>> # Centre)
         ~> (s \notin Keys(players) \/ Player(players, s).isDead)

\* The 200th run of the loop has just killed a player that joined on the rim
\* of the zone (playerKilled names "ZONE"), while the other one, at the
\* centre, still has health 100.
RimPlayerKilledByZone ==
  \E k \in 1..Len(emitted), i, j \in 1..Len(players) :
    /\ ticks = 200
    /\ emitted[k].type = "playerKilled"
    /\ emitted[k].killer = "ZONE"
    /\ emitted[k].victim = players[i].id
    /\ <<players[i].x, players[i].y>> = Rim
    /\ players[i].isDead /\ players[i].health = 0
    /\ <<players[j].x, players[j].y>> = Centre
    /\ players[j].health = START_HEALTH

\* The gameStateUpdate messages a step emits.
Snapshots == {k \in 1..Len(emitted') : emitted'[k].type = "gameStateUpdate"}

\* C19: a run of the game loop is one step: it emits one gameStateUpdate,
\* last, which holds the store as the run leaves it; that store is the one the
\* bullet loop, then the shrink, then the zone damage make of the store before
\* the run; nothing a command does (a player added, removed, moved or turned,
\* a bullet added, a join or leave message) happens in the step; and no other
\* step emits a gameStateUpdate.
TickIsOneUnit ==
  [][/\ IsTick =>
          LET shot == BulletLoop(Len(bullets), players, bullets, <<>>)
          IN  /\ Cardinality(Snapshots) = 1
              /\ Snapshots = {Len(emitted')}
              /\ emitted'[Len(emitted')].gameState = gameState'
              /\ bullets' = shot.bullets
              /\ zone' = Shrink(zone)
              /\ players' = ZoneLoop(1, shot.players, Shrink(zone), <<>>).players
              /\ closed' = closed /\ nextId' = nextId
              /\ BulletIds(bullets') \subseteq BulletIds(bullets)
              /\ Len(players') = Len(players)
              /\ \A i \in 1..Len(players) :
                   /\ players'[i].id = players[i].id
                   /\ players'[i].x = players[i].x
                   /\ players'[i].y = players[i].y
                   /\ players'[i].angle = players[i].angle
                   /\ players'[i].teamId = players[i].teamId
                   /\ players'[i].name = players[i].name
              /\ \A k \in 1..Len(emitted') :
                   emitted'[k].type \in {"playerKilled", "gameStateUpdate"}
     /\ ~IsTick => Snapshots = {} /\ ticks' = ticks]_vars

\* A run of the loop in which a bullet hit a player outside the zone has
\* published the store it left: 100 - 20 - 0.5 for that player.
TickPublishedHitAndZone ==
  /\ emitted # <<>>
  /\ emitted[Len(emitted)].type = "gameStateUpdate"
  /\ emitted[Len(emitted)].gameState = gameState
  /\ \E i \in 1..Len(players) :
       players[i].health = START_HEALTH - BULLET_DAMAGE - ZONE_DAMAGE

\* C20: a run of the game loop emits one playerKilled for each player it takes
\* from alive to dead and none for any other player; the message names "ZONE"
\* exactly when the zone's 0.5 completed the death, and otherwise the ownerId
\* of an in-range bullet of another owner and team that the run took out; no
\* other step emits a playerKilled.
OneNoticePerDeath ==
  [][/\ ~IsTick => Killings = {}
     /\ IsTick =>
          /\ \A id \in Keys(players) :
               Cardinality({k \in Killings : emitted'[k].victim = id})
                 = IF Dies(id) THEN 1 ELSE 0
          /\ \A k \in Killings :
               LET v == emitted'[k].victim
                   killer == emitted'[k].killer
               IN  /\ v \in Keys(players)
                   /\ killer = "ZONE" <=> Lost(v) % BULLET_DAMAGE = ZONE_DAMAGE
                   /\ killer # "ZONE" =>
                        \E i \in HitBullets :
                          /\ bullets[i].ownerId = killer
                          /\ killer # v
                          /\ bullets[i].teamId # Player(players, v).teamId]_vars

\* The loop has just killed a player with five bullets and said so once,
\* naming their owner; that owner's sixth bullet reached the dead player in
\* the same run and is still in the store.
SixthBulletFoundPlayerDead ==
  \E k \in 1..Len(emitted), i \in 1..Len(players), n \in 1..Len(bullets) :
    /\ emitted[k].type = "playerKilled"
    /\ emitted[k].victim = players[i].id
    /\ emitted[k].killer = bullets[n].ownerId
    /\ players[i].isDead
    /\ Near(players[i], bullets[n])
    /\ bullets[n].distance = BULLET_SPEED
    /\ Len(emitted) = 2

\* The bullet with this id in a bullet collection.
BulletOf(bs, id) == bs[CHOOSE i \in 1..Len(bs) : bs[i].id = id]

\* C21: a bullet in the store has flown 15 for each run of the loop since its
\* shoot and at most 600 (40 runs); a run takes out every bullet that has
\* flown 600 and moves every bullet it keeps by 15; no other step takes a
\* bullet out or moves one; the players lose 20 once for each bullet taken out
\* in range and nothing for a bullet taken out beyond 600; and every bullet in
\* the store is eventually out of it.
BulletRetiredByTick41 ==
  /\ [](\A i \in 1..Len(bullets) :
          /\ bullets[i].distance % 15 = 0
          /\ bullets[i].distance \div 15 \in 0..40)
  /\ [][/\ IsTick =>
             /\ \A i \in 1..Len(bullets) :
                  /\ (bullets[i].distance = 600 => bullets[i].id \notin BulletIds(bullets'))
                  /\ (bullets[i].id \in BulletIds(bullets')
                       => BulletOf(bullets', bullets[i].id).distance = bullets[i].distance + 15)
             /\ SumOver(Keys(players), [id \in Keys(players) |-> Lost(id) \div BULLET_DAMAGE])
                  = Cardinality(HitBullets)
             /\ ((\A i \in 1..Len(bullets) : bullets[i].distance = 600)
                  => (\A id \in Keys(players) : Lost(id) = 0))
        /\ ~IsTick =>
             \A i \in 1..Len(bullets) :
               /\ bullets[i].id \in BulletIds(bullets')
               /\ BulletOf(bullets', bullets[i].id) = bullets[i]]_vars
  /\ \A id \in 1..MaxFlightShots :
       (id \in BulletIds(bullets)) ~> (id \notin BulletIds(bullets))

\* The 41st run of the loop has just taken out the bullet fired before the
\* first; the player standing within 20 of where it was after flying 615 is
\* unhurt.
BulletRetiredNearPlayer ==
  /\ bullets = <<>>
  /\ nextId = 1
  /\ ticks = 41
  /\ emitted # <<>>
  /\ emitted[Len(emitted)].type = "gameStateUpdate"
  /\ \E i, j \in 1..Len(players) :
       /\ <<players[i].x, players[i].y>> = BeyondRange
       /\ players[i].health = START_HEALTH
       /\ <<players[j].x, players[j].y>> = Centre

\* The places in the store of the bullets that are still there after the step.
Kept == {i \in 1..Len(bullets) : bullets[i].id \in BulletIds(bullets')}

\* C22: after a run of the game loop the store holds the bullets it kept, in
\* the order they had, each 15 farther along its angle with 15 more distance
\* and the same id, ownerId, teamId, angle, speed and maxDistance; each bullet
\* not kept was out of range or took 20 from one player.
BulletsAdvancedOnce ==
  [][IsTick =>
       /\ Len(bullets') = Cardinality(Kept)
       /\ \A m, n \in 1..Len(bullets') : m # n => bullets'[m].id # bullets'[n].id
       /\ \A i, j \in Kept :
            i < j => \E m, n \in 1..Len(bullets') :
                       /\ m < n
                       /\ bullets'[m].id = bullets[i].id
                       /\ bullets'[n].id = bullets[j].id
       /\ \A i \in Kept :
            LET b == bullets[i]
                c == BulletOf(bullets', b.id)
            IN  /\ c.distance = b.distance + 15
                /\ c.x = b.x + (IF b.angle = 0 THEN 15 ELSE IF b.angle = 180 THEN -15 ELSE 0)
                /\ c.y = b.y + (IF b.angle = 90 THEN 15 ELSE IF b.angle = 270 THEN -15 ELSE 0)
                /\ c.ownerId = b.ownerId /\ c.teamId = b.teamId
                /\ c.angle = b.angle /\ c.speed = b.speed
                /\ c.maxDistance = b.maxDistance
       /\ SumOver(Keys(players), [id \in Keys(players) |-> Lost(id) \div BULLET_DAMAGE])
            = Cardinality(HitBullets)
       /\ \A id \in Keys(players) : Lost(id) % BULLET_DAMAGE \in {0, ZONE_DAMAGE}]_vars

\* A run of the loop found two bullets in flight: it took out the first, which
\* hit the player 300 away, and kept the second, fired one run later and moved
\* on by 15.
OneBulletHitOneKept ==
  /\ ticks = 19
  /\ nextId = 2
  /\ emitted # <<>>
  /\ emitted[Len(emitted)].type = "gameStateUpdate"
  /\ Len(bullets) = 1
  /\ bullets[1].id = 2
  /\ bullets[1].distance = 18 * BULLET_SPEED
  /\ \E i \in 1..Len(players) :
       /\ <<players[i].x, players[i].y>> = Target
       /\ players[i].health = START_HEALTH - BULLET_DAMAGE

====
